---- MODULE Spec2Model ----
(***************************************************************************)
(* State-machine model of the emailai triage UI (React front end).         *)
(*                                                                         *)
(* The sort board (SortBoard.jsx, route "/") lists the incoming and the    *)
(* categorized emails.  Two page components named Dashboard exist in the   *)
(* repository (route "/board"):                                            *)
(*   - the ticket-synthesizing Dashboard (incomingEmails / tickets /       *)
(*     selected), which builds tickets locally from incoming emails;       *)
(*   - the agent board (emails / loading / error / selected), which lists  *)
(*     the emails the backend assigned to an agent and talks to the        *)
(*     backend through utils/api.js.                                       *)
(* Each page is modelled by its own next-state relation; the state slots   *)
(* emails, loading and error of the two boards share a variable, only one  *)
(* page being mounted at a time.                                           *)
(* A React state slot is a variable; an event handler is an action; an     *)
(* async handler is split at each await, the in-flight call being a        *)
(* request in the bag inFlight together with the values its closure holds. *)
(***************************************************************************)
EXTENDS Integers, Sequences, FiniteSets, Bags, TLC

VARIABLES
  incomingEmails,  \* synthesizing Dashboard: useState(seedEmails)
  tickets,         \* synthesizing Dashboard: useState([])
  selected,        \* synthesizing Dashboard: useState(null)
  emails,          \* agent board and sort board: useState([])
  loading,         \* agent board and sort board: useState(true)
  error,           \* agent board and sort board: useState(null)
  boardSelected,   \* agent board: its own useState(null) named selected
  inFlight,        \* both boards: bag of network calls and timers not yet
                   \* settled, each with the values its closure holds
  categorizedEmails, \* sort board: useState([])
  sorting,         \* sort board: useState(false)
  checking,        \* sort board: useState(false)
  started,         \* history, kept under SortHistSpec only: the sort
                   \* board's lists when the operation of each kind now or
                   \* last in flight was started
  isGenerating,    \* EmailDetail (mounted instance): useState(false)
  crashed,         \* agent board: a state updater threw while rendering
  last             \* history: the handler that ran in the last step

dashVars == <<incomingEmails, tickets, selected>>
boardVars == <<emails, loading, error, boardSelected, inFlight,
               isGenerating, crashed>>
sortVars == <<categorizedEmails, sorting, checking, started>>
vars == <<incomingEmails, tickets, selected,
          emails, loading, error, boardSelected, inFlight,
          categorizedEmails, sorting, checking, started,
          isGenerating, crashed, last>>

\* JavaScript null (an object without properties, so that it compares with
\* the records that model objects) and undefined
None == [null |-> TRUE]
Undefined == "undefined"
\* the error slot holds null or a message
NoError == "null"

\* t.f in JavaScript: undefined when the object has no such property
Field(t, f) == IF f \in DOMAIN t THEN t[f] ELSE Undefined

----------------------------------------------------------------------------
(* Bounds of the model *)

\* at most this many seed emails are passed to the synthesizing Dashboard
MaxSeed == 2
\* Send is not offered once a thread holds this many entries (caps the
\* send / simulated-reply cycle, which the program allows without end)
MaxThread == 3

\* values Math.random().toString(16).slice(2, 8) may produce; two draws may
\* coincide
TicketIds == {"TKT-A1", "TKT-B2"}

\* texts the user may leave in the draft textarea (the empty text included)
DraftBodies == {"", "edited"}

----------------------------------------------------------------------------
(* Sequences helpers (Array.prototype.map / filter / find) *)

\* Array.prototype.filter
SeqFilter(s, Keep(_)) == SelectSeq(s, Keep)

SeqMap(s, F(_)) == [i \in 1..Len(s) |-> F(s[i])]

\* index of the first element satisfying P, 0 when none (Array.find)
FindIndex(s, P(_)) ==
  IF \E i \in 1..Len(s) : P(s[i])
  THEN CHOOSE i \in 1..Len(s) : P(s[i]) /\ \A j \in 1..(i-1) : ~P(s[j])
  ELSE 0

\* Array.prototype.join
RECURSIVE Join(_, _)
Join(s, sep) ==
  IF s = <<>> THEN ""
  ELSE IF Len(s) = 1 THEN s[1]
       ELSE s[1] \o sep \o Join(Tail(s), sep)

----------------------------------------------------------------------------
(* The ticket-synthesizing Dashboard *)

\* emails the page may be seeded with (DEFAULT_EMAILS, or the router state
\* passed from the sort board).  EML-1003 repeats the message id and the
\* attachments of EML-1001; EML-1004 has a "|" inside its message id.
EmailPool ==
  << [id |-> "EML-1001", messageId |-> "msg-1001", subject |-> "ZX100",
      attachments |-> <<"r1", "r2">>],
     [id |-> "EML-1002", messageId |-> "msg-1002", subject |-> "QX55",
      attachments |-> <<"r3">>],
     [id |-> "EML-1003", messageId |-> "msg-1001", subject |-> "ZX100",
      attachments |-> <<"r1", "r2">>],
     [id |-> "EML-1004", messageId |-> "msg-1001|r1", subject |-> "other",
      attachments |-> <<"r2">>] >>

\* the sublists of the pool, in pool order
RECURSIVE SubLists(_)
SubLists(s) ==
  IF s = <<>> THEN {<<>>}
  ELSE LET rest == SubLists(Tail(s))
       IN rest \cup {<<Head(s)>> \o r : r \in rest}

SeedLists == {s \in SubLists(EmailPool) : Len(s) <= MaxSeed}

IngestionKey(em) == em.messageId \o "|" \o Join(em.attachments, "|")

DefaultScores(model) ==
  IF model = "ZX100"
  THEN [confidence |-> 92, dup_score |-> 12, fraud_score |-> 8]
  ELSE [confidence |-> 86, dup_score |-> 18, fraud_score |-> 10]

\* the ticket built for an email when none exists with its ingestionKey
NewTicket(em, newId) ==
  [ id |-> newId,
    ingestionKey |-> IngestionKey(em),
    email_id |-> em.id,
    subject |-> em.subject,
    status |-> "awaiting_review",
    attachments |-> [i \in 1..Len(em.attachments) |->
                       [sasUrl |-> em.attachments[i], blob |-> i - 1]],
    scores |-> DefaultScores(em.subject),
    draft_reply |-> [template |-> "approve", body |-> "template"],
    thread |-> << [id |-> em.messageId, direction |-> "in"] >> ]

\* mutant of mkTicketFromEmail: the lookup by ingestionKey is dropped
mkTicketFromEmail_NoLookup(em, newId) == NewTicket(em, newId)

mkTicketFromEmail(em, newId) ==
  LET ingestionKey == IngestionKey(em)
      i == FindIndex(tickets, LAMBDA t : t.ingestionKey = ingestionKey)
  IN IF i # 0 THEN tickets[i] ELSE NewTicket(em, newId)

\* EmailDetail: const isClosed = ticket.status === "sent"
isClosed(ticket) == Field(ticket, "status") = "sent"

openTickets == SeqFilter(tickets, LAMBDA t : t.status # "sent")
closedTickets == SeqFilter(tickets, LAMBDA t : t.status = "sent")

\* the board (three columns) is rendered when nothing is selected
BoardShown == selected = None
DetailShown == selected # None

handleOpenIncoming(emailId, newId) ==
  /\ BoardShown
  /\ \E k \in 1..Len(incomingEmails) : incomingEmails[k].id = emailId
  /\ LET em == incomingEmails[FindIndex(incomingEmails, LAMBDA e : e.id = emailId)]
         t == mkTicketFromEmail(em, newId)
     IN /\ tickets' = IF \E k \in 1..Len(tickets) :
                            tickets[k].ingestionKey = t.ingestionKey
                       THEN tickets
                       ELSE <<t>> \o tickets
        /\ incomingEmails' = SeqFilter(incomingEmails, LAMBDA e : e.id # em.id)
        /\ selected' = t
        /\ last' = [op |-> "OpenIncoming", email |-> em]
        /\ UNCHANGED <<boardVars, sortVars>>

handleOpenTicket(ticketId) ==
  /\ BoardShown
  /\ \E k \in 1..Len(tickets) : tickets[k].id = ticketId
  /\ selected' = tickets[FindIndex(tickets, LAMBDA x : x.id = ticketId)]
  /\ last' = [op |-> "OpenTicket", id |-> ticketId]
  /\ UNCHANGED <<incomingEmails, tickets>>
  /\ UNCHANGED <<boardVars, sortVars>>

\* mutant of SaveTicket: saving also puts the ticket back under review
SaveTicket_Reopens(t, ticketId, draftBody) ==
  IF t.id = ticketId
  THEN [t EXCEPT !.draft_reply.body = draftBody, !.status = "awaiting_review"]
  ELSE IF t.status = "sent" THEN [t EXCEPT !.status = "awaiting_review"] ELSE t

SaveTicket(t, ticketId, draftBody) ==
  IF t.id = ticketId
  THEN [t EXCEPT !.draft_reply.body = draftBody]
  ELSE t

handleSave(ticketId, draftBody) ==
  /\ DetailShown /\ ~isClosed(selected)
  /\ ticketId = selected.id
  /\ tickets' = SeqMap(tickets, LAMBDA t : SaveTicket(t, ticketId, draftBody))
  /\ last' = [op |-> "Save", id |-> ticketId, body |-> draftBody]
  /\ UNCHANGED <<incomingEmails, selected>>
  /\ UNCHANGED <<boardVars, sortVars>>

SendTicket(t, ticketId, draftBody) ==
  IF t.id = ticketId
  THEN [t EXCEPT !.status = "sent", !.draft_reply.body = draftBody]
  ELSE t

\* mutant of handleSend: the detail view stays open after sending
handleSend_StaysOpen(ticketId, draftBody) ==
  /\ DetailShown /\ ~isClosed(selected)
  /\ ticketId = selected.id
  /\ \A k \in 1..Len(tickets) : Len(tickets[k].thread) < MaxThread
  /\ tickets' = SeqMap(tickets, LAMBDA t : SendTicket(t, ticketId, draftBody))
  /\ last' = [op |-> "Send", id |-> ticketId, body |-> draftBody]
  /\ UNCHANGED <<incomingEmails, selected>>
  /\ UNCHANGED <<boardVars, sortVars>>

handleSend(ticketId, draftBody) ==
  /\ DetailShown /\ ~isClosed(selected)
  /\ ticketId = selected.id
  /\ \A k \in 1..Len(tickets) : Len(tickets[k].thread) < MaxThread
  /\ tickets' = SeqMap(tickets, LAMBDA t : SendTicket(t, ticketId, draftBody))
  /\ selected' = None
  /\ last' = [op |-> "Send", id |-> ticketId, body |-> draftBody]
  /\ UNCHANGED incomingEmails
  /\ UNCHANGED <<boardVars, sortVars>>

ReplyEntry == [id |-> "reply", direction |-> "in"]

\* mutant of ReplyTicket: the reply replaces the history
ReplyTicket_Replace(t, ticketId) ==
  IF t.id = ticketId
  THEN [t EXCEPT !.status = "awaiting_review", !.thread = <<ReplyEntry>>]
  ELSE t

ReplyTicket(t, ticketId) ==
  IF t.id = ticketId
  THEN [t EXCEPT !.status = "awaiting_review",
                 !.thread = t.thread \o <<ReplyEntry>>]
  ELSE t

handleSimulateReply(ticketId) ==
  /\ DetailShown /\ isClosed(selected)
  /\ ticketId = selected.id
  /\ tickets' = SeqMap(tickets, LAMBDA t : ReplyTicket(t, ticketId))
  /\ selected' = None
  /\ last' = [op |-> "SimulateReply", id |-> ticketId]
  /\ UNCHANGED incomingEmails
  /\ UNCHANGED <<boardVars, sortVars>>

handleBackHome ==
  /\ DetailShown
  /\ selected' = None
  /\ last' = [op |-> "Back"]
  /\ UNCHANGED <<incomingEmails, tickets>>
  /\ UNCHANGED <<boardVars, sortVars>>

\* the agent board before it is mounted
\* the sort board is not mounted
\* the lists of the sort board as one value
Lists == [emails |-> emails, categorizedEmails |-> categorizedEmails]

NoLists == [emails |-> <<>>, categorizedEmails |-> <<>>]
NotStarted == [sort |-> NoLists, check |-> NoLists, refresh |-> NoLists]
\* the value of started when the history is not kept
NotKept == [kept |-> FALSE]

\* started after the operation of this kind was started
StartedNow(kind) ==
  IF started = NotKept THEN NotKept ELSE [started EXCEPT ![kind] = Lists]

SortIdle ==
  /\ categorizedEmails = <<>>
  /\ sorting = FALSE
  /\ checking = FALSE
  /\ started = NotKept

BoardIdle ==
  /\ SortIdle
  /\ emails = <<>>
  /\ loading = TRUE
  /\ error = NoError
  /\ boardSelected = None
  /\ inFlight = EmptyBag
  /\ isGenerating = FALSE
  /\ crashed = FALSE

Init ==
  /\ incomingEmails \in SeedLists
  /\ tickets = <<>>
  /\ selected = None
  /\ last = [op |-> "init"]
  /\ BoardIdle

OpenIncoming == \E e \in 1..Len(EmailPool), newId \in TicketIds :
                  handleOpenIncoming(EmailPool[e].id, newId)
OpenTicket == \E ticketId \in TicketIds : handleOpenTicket(ticketId)
Save == \E draftBody \in DraftBodies : handleSave(selected.id, draftBody)
Send == \E draftBody \in DraftBodies : handleSend(selected.id, draftBody)
SimulateReply == handleSimulateReply(selected.id)
Back == handleBackHome

Next ==
  \/ OpenIncoming
  \/ OpenTicket
  \/ Save
  \/ Send
  \/ SimulateReply
  \/ Back

Spec == Init /\ [][Next]_vars

----------------------------------------------------------------------------
(* The agent board: data the backend may return *)

\* a || b on a property that holds a string: "" and undefined are falsy
StrOr(obj, f, default) ==
  IF f \in DOMAIN obj /\ obj[f] # "" THEN obj[f] ELSE default

\* a || b on a property that holds an object or an array: only a missing
\* property is falsy
ObjOr(obj, f, default) == IF f \in DOMAIN obj THEN obj[f] ELSE default

\* a || b on a property that holds a number: 0 and undefined are falsy
NumOr(obj, f, default) ==
  IF f \in DOMAIN obj /\ obj[f] # 0 THEN obj[f] ELSE default

\* { ...obj, f: v }
With(obj, f, v) ==
  IF obj = None THEN [x \in {f} |-> v]
  ELSE [x \in DOMAIN obj \cup {f} |-> IF x = f THEN v ELSE obj[x]]

\* ids of the emails the backend lists for the agent
EmailIds == <<"e1", "e2">>

\* values of the ticket field in a backend record; "" stands for a record
\* without the field (or with ticket "new", which the board lists alike),
\* "archived" for a value the board has no column for
RawEmail(id, ticket) ==
  [id |-> id, subject |-> "subject " \o id, body |-> "hello", ticket |-> ticket,
   attachments |-> << [name |-> "receipt.png", blobPath |-> id \o "/receipt.png"] >>]

\* the lists GET /emails?assigned_agent= may answer with; a ticket field
\* that is empty is shown as new, one that is unrecognised in no column
BackendLists ==
  { <<>>,
    <<RawEmail(EmailIds[1], "open")>>,
    <<RawEmail(EmailIds[1], ""), RawEmail(EmailIds[2], "")>>,
    <<RawEmail(EmailIds[1], "closed"), RawEmail(EmailIds[2], "archived")>> }

\* extracted fields before any OCR text was parsed
NoExtraction ==
  [merchant |-> "null", date |-> "null", total |-> "null", model |-> "null",
   store_number |-> "null"]

\* the object fetchEmailDoc(...).catch(() => ({})) yields on failure
EmptyDoc == [empty |-> TRUE]

OcrAttachment(id) ==
  [name |-> "receipt.png", blobPath |-> id \o "/receipt.png",
   ocr |-> [text |-> [json |-> TRUE,
                      value |-> [merchant |-> "Best Buy", total |-> "249.50",
                                 confidence_score |-> 90,
                                 duplication_score |-> 5]]]]

\* the documents GET /emails/{id}/fetch may answer with: none (the call
\* failed), one whose attachment went through OCR but that carries no overall
\* scores, and one with OCR result, overall scores and a draft
DocPool(id) ==
  { EmptyDoc,
    [id |-> id, ticket |-> "sent", attachments |-> <<OcrAttachment(id)>>],
    [id |-> id, subject |-> "subject " \o id, body |-> "hello",
     ticket |-> "closed", attachments |-> <<OcrAttachment(id)>>,
     overall_confidence |-> 80, overall_duplication |-> 10,
     draft_reply |-> [template |-> "response", body |-> "generated"]] }

\* the draft texts the agent types in the detail pane
BoardDrafts == {"edited"}

\* at most this many network calls are in flight at once
MaxInFlight == 2

----------------------------------------------------------------------------
(* The agent board: handlers *)

\* refreshEmails / loadEmails: one backend record to one list entry
TransformEmail(email, idx) ==
  [ id |-> StrOr(email, "id", "EML-" \o ToString(idx)),
    subject |-> StrOr(email, "subject", "No Subject"),
    body |-> StrOr(email, "body", ""),
    attachments |-> ObjOr(email, "attachments", <<>>),
    messageId |-> StrOr(email, "id", "msg-" \o ToString(idx)),
    ticket |-> StrOr(email, "ticket", "new"),
    hasAttachments |-> Len(ObjOr(email, "attachments", <<>>)) > 0 ]

TransformEmails(agentEmails) ==
  [i \in 1..Len(agentEmails) |-> TransformEmail(agentEmails[i], i)]

newEmails == SeqFilter(emails, LAMBDA email : email.ticket = "new")
\* mutant of openEmails: everything that is not closed counts as open
openEmails_NotClosed == SeqFilter(emails, LAMBDA email : email.ticket # "closed")

openEmails == SeqFilter(emails, LAMBDA email : email.ticket = "open")

closedEmails == SeqFilter(emails, LAMBDA email : email.ticket = "closed")

\* what the agent board renders: loading ? ... : error ? ... : !selected ? ...
BoardView ==
  IF crashed THEN "blank"
  ELSE IF loading THEN "loading"
  ELSE IF error # NoError THEN "error"
  ELSE IF boardSelected = None THEN "board"
  ELSE "detail"

Pending(req) == ~crashed /\ BagIn(req, inFlight)
Issue(req) == inFlight (+) SetToBag({req})
Settle(req) == inFlight (-) SetToBag({req})
Replace(req, next) == (inFlight (-) SetToBag({req})) (+) SetToBag({next})
CanIssue == BagCardinality(inFlight) < MaxInFlight

\* The calls and the timer of handleGenerate carry live: whether the
\* EmailDetail instance that issued them is still mounted.  When the detail
\* pane leaves the screen the instance is unmounted: its state is gone (a
\* later instance starts with isGenerating false) and what it left in flight
\* can no longer set its state.
Dead(req) == IF "live" \in DOMAIN req THEN [req EXCEPT !.live = FALSE] ELSE req
Copies(bag, req) == IF req \in DOMAIN bag THEN bag[req] ELSE 0
Detach(bag) ==
  [req \in {Dead(r) : r \in DOMAIN bag} |->
     Copies(bag, req)
     + (IF "live" \in DOMAIN req THEN Copies(bag, [req EXCEPT !.live = TRUE]) ELSE 0)]

ListRequest == [op |-> "list"]

\* the effect of the component mounting: loadEmails() runs up to its await
Mounted ==
  /\ SortIdle
  /\ emails = <<>>
  /\ loading = TRUE
  /\ error = NoError
  /\ boardSelected = None
  /\ inFlight = SetToBag({ListRequest})
  /\ isGenerating = FALSE
  /\ crashed = FALSE

\* the Refresh button (disabled while loading): refreshEmails up to its
\* await; the loading text replaces whatever was rendered
refreshEmails ==
  /\ ~crashed /\ ~loading
  /\ CanIssue
  /\ loading' = TRUE
  /\ error' = NoError
  /\ inFlight' = Detach(Issue(ListRequest))
  /\ isGenerating' = FALSE
  /\ last' = [op |-> "Refresh"]
  /\ UNCHANGED <<emails, boardSelected, crashed>>
  /\ UNCHANGED <<dashVars, sortVars>>

\* loadEmails / refreshEmails after fetchEmailsByAgent resolved
listResolved(agentEmails) ==
  /\ Pending(ListRequest)
  /\ emails' = TransformEmails(agentEmails)
  /\ loading' = FALSE
  /\ inFlight' = Settle(ListRequest)
  /\ last' = [op |-> "ListOk"]
  /\ UNCHANGED <<error, boardSelected, isGenerating, crashed>>
  /\ UNCHANGED <<dashVars, sortVars>>

\* loadEmails / refreshEmails after fetchEmailsByAgent rejected
listRejected ==
  /\ Pending(ListRequest)
  /\ error' = "Failed to fetch emails for agent"
  /\ emails' = <<>>
  /\ loading' = FALSE
  /\ inFlight' = Settle(ListRequest)
  /\ last' = [op |-> "ListFail"]
  /\ UNCHANGED <<boardSelected, isGenerating, crashed>>
  /\ UNCHANGED <<dashVars, sortVars>>

\* ids of the list entries the three columns show
Listed == {emails[i].id : i \in {k \in 1..Len(emails) :
                                   emails[k].ticket \in {"new", "open", "closed"}}}

\* A document fetch of handleOpenEmail carries newest: whether no email was
\* opened after it (a record of the order of the clicks; the code keeps no
\* such mark).
Superseded(req) == IF req.op = "openDoc" THEN [req EXCEPT !.newest = FALSE] ELSE req
Supersede(bag) ==
  [req \in {Superseded(r) : r \in DOMAIN bag} |->
     Copies(bag, req)
     + (IF req.op = "openDoc" /\ ~req.newest
        THEN Copies(bag, [req EXCEPT !.newest = TRUE]) ELSE 0)]

\* handleOpenEmail up to its await of fetchEmailDoc
handleOpenEmail(emailId) ==
  /\ BoardView = "board"
  /\ emailId \in Listed
  /\ CanIssue
  /\ LET email == emails[FindIndex(emails, LAMBDA e : e.id = emailId)]
     IN inFlight' = Supersede(inFlight)
                      (+) SetToBag({[op |-> "openDoc", email |-> email, newest |-> TRUE]})
  /\ last' = [op |-> "Open", id |-> emailId]
  /\ UNCHANGED <<emails, loading, error, boardSelected, isGenerating, crashed>>
  /\ UNCHANGED <<dashVars, sortVars>>

MapAttachments(atts) ==
  [i \in 1..Len(atts) |->
     [ sasUrl |-> StrOr(atts[i], "blobPath", "mock/blob/" \o ToString(i - 1)),
       blob |-> StrOr(atts[i], "blobPath", "mock/blob/" \o ToString(i - 1)),
       name |-> StrOr(atts[i], "name", "attachment_" \o ToString(i - 1)),
       ocr |-> ObjOr(atts[i], "ocr", None) ]]

\* the ticket handleOpenEmail builds from the list entry and the document
BoardTicket(email, doc) ==
  [ id |-> StrOr(doc, "id", email.id),
    email_id |-> StrOr(doc, "id", email.id),
    subject |-> StrOr(doc, "subject", email.subject),
    status |-> StrOr(doc, "ticket", "awaiting_review"),
    email_body |-> StrOr(doc, "body", email.body),
    attachments |-> MapAttachments(ObjOr(doc, "attachments", email.attachments)),
    extracted |-> NoExtraction,
    scores |-> [confidence |-> 0, duplication |-> 0],
    overall_confidence |-> NumOr(doc, "overall_confidence", 0),
    overall_duplication |-> NumOr(doc, "overall_duplication", 0),
    draft_reply |-> ObjOr(doc, "draft_reply", [template |-> "response", body |-> ""]),
    thread |-> << [id |-> email.messageId, direction |-> "in"] >> ]

\* mutant of openDocSettled: the list entry is set to open without waiting
\* for the status update
openDocSettled_Optimistic(req, doc) ==
  /\ Pending(req) /\ req.op = "openDoc"
  /\ boardSelected' = BoardTicket(req.email, doc)
  /\ emails' = [i \in 1..Len(emails) |->
                  IF emails[i].id = req.email.id /\ req.email.ticket = "new"
                  THEN [emails[i] EXCEPT !.ticket = "open"]
                  ELSE emails[i]]
  /\ inFlight' = IF req.email.ticket = "new"
                 THEN Replace(req, [op |-> "ticket", id |-> req.email.id])
                 ELSE Settle(req)
  /\ last' = [op |-> "OpenShown", id |-> req.email.id, was |-> req.email.ticket,
              newest |-> req.newest]
  /\ UNCHANGED <<loading, error, isGenerating, crashed>>
  /\ UNCHANGED <<dashVars, sortVars>>

\* handleOpenEmail after fetchEmailDoc settled (doc is {} when it rejected):
\* the ticket is selected and, for an entry that was new, the status update
\* is issued without being awaited
openDocSettled(req, doc) ==
  /\ Pending(req) /\ req.op = "openDoc"
  /\ boardSelected' = BoardTicket(req.email, doc)
  /\ inFlight' = IF req.email.ticket = "new"
                 THEN Replace(req, [op |-> "ticket", id |-> req.email.id])
                 ELSE Settle(req)
  /\ last' = [op |-> "OpenShown", id |-> req.email.id, was |-> req.email.ticket,
              newest |-> req.newest]
  /\ UNCHANGED <<emails, loading, error, isGenerating, crashed>>
  /\ UNCHANGED <<dashVars, sortVars>>

\* mutant of AckTicket: the test of the id is dropped
AckTicket_All(e, emailId) == [e EXCEPT !.ticket = "open"]

AckTicket(e, emailId) == IF e.id = emailId THEN [e EXCEPT !.ticket = "open"] ELSE e

\* .then of updateEmailTicket(emailId, 'open')
ticketAcked(req) ==
  /\ Pending(req) /\ req.op = "ticket"
  /\ emails' = SeqMap(emails, LAMBDA e : AckTicket(e, req.id))
  /\ inFlight' = Settle(req)
  /\ last' = [op |-> "AckOk", id |-> req.id]
  /\ UNCHANGED <<loading, error, boardSelected, isGenerating, crashed>>
  /\ UNCHANGED <<dashVars, sortVars>>

\* mutant of ticketRejected: the failure is surfaced in the error slot
ticketRejected_ShowsError(req) ==
  /\ Pending(req) /\ req.op = "ticket"
  /\ error' = "Failed to update email ticket"
  /\ inFlight' = Settle(req)
  /\ last' = [op |-> "AckFail", id |-> req.id]
  /\ UNCHANGED <<emails, loading, boardSelected, isGenerating, crashed>>
  /\ UNCHANGED <<dashVars, sortVars>>

\* .catch of updateEmailTicket(emailId, 'open'): console.error only
ticketRejected(req) ==
  /\ Pending(req) /\ req.op = "ticket"
  /\ inFlight' = Settle(req)
  /\ last' = [op |-> "AckFail", id |-> req.id]
  /\ UNCHANGED <<emails, loading, error, boardSelected, isGenerating, crashed>>
  /\ UNCHANGED <<dashVars, sortVars>>

\* handleSave up to its await of saveDraft
boardSave(ticketId, draftBody) ==
  /\ BoardView = "detail" /\ ~isClosed(boardSelected)
  /\ ticketId = Field(boardSelected, "id")
  /\ CanIssue
  /\ boardSelected' =
       With(boardSelected, "draft_reply",
            With(ObjOr(boardSelected, "draft_reply", None), "body", draftBody))
  /\ inFlight' = Issue([op |-> "save", id |-> ticketId, body |-> draftBody])
  /\ last' = [op |-> "Save", id |-> ticketId]
  /\ UNCHANGED <<emails, loading, error, isGenerating, crashed>>
  /\ UNCHANGED <<dashVars, sortVars>>

\* handleSave after saveDraft resolved: the document is fetched again
saveResolved(req) ==
  /\ Pending(req) /\ req.op = "save"
  /\ inFlight' = Replace(req, [op |-> "saveDoc", id |-> req.id])
  /\ last' = [op |-> "SaveOk", id |-> req.id]
  /\ UNCHANGED <<emails, loading, error, boardSelected, isGenerating, crashed>>
  /\ UNCHANGED <<dashVars, sortVars>>

\* mutant of saveRejected: the draft body is put back to empty
saveRejected_RollsBack(req) ==
  /\ Pending(req) /\ req.op = "save"
  /\ inFlight' = Settle(req)
  /\ boardSelected' =
       IF boardSelected = None THEN None
       ELSE With(boardSelected, "draft_reply",
                 With(ObjOr(boardSelected, "draft_reply", None), "body", ""))
  /\ last' = [op |-> "SaveFail", id |-> req.id, body |-> req.body,
              alert |-> "Failed to save edits"]
  /\ UNCHANGED <<emails, loading, error, isGenerating, crashed>>
  /\ UNCHANGED <<dashVars, sortVars>>

\* handleSave after saveDraft rejected: the catch block logs and calls
\* alert('Failed to save edits'); last.alert is the text of the dialog
saveRejected(req) ==
  /\ Pending(req) /\ req.op = "save"
  /\ inFlight' = Settle(req)
  /\ last' = [op |-> "SaveFail", id |-> req.id, body |-> req.body,
              alert |-> "Failed to save edits"]
  /\ UNCHANGED <<emails, loading, error, boardSelected, isGenerating, crashed>>
  /\ UNCHANGED <<dashVars, sortVars>>

\* mutant of saveDocSettled: the fetched document is not applied
saveDocSettled_Ignored(req, updated) ==
  /\ Pending(req) /\ req.op = "saveDoc"
  /\ inFlight' = Settle(req)
  /\ last' = [op |-> "SaveDone", id |-> req.id, doc |-> updated]
  /\ UNCHANGED <<emails, loading, error, boardSelected, isGenerating, crashed>>
  /\ UNCHANGED <<dashVars, sortVars>>

\* handleSave after the second fetchEmailDoc settled:
\* setSelected(prev => ({ ...prev, attachments: atts }))
saveDocSettled(req, updated) ==
  /\ Pending(req) /\ req.op = "saveDoc"
  /\ boardSelected' =
       With(boardSelected, "attachments",
            MapAttachments(ObjOr(updated, "attachments", <<>>)))
  /\ inFlight' = Settle(req)
  /\ last' = [op |-> "SaveDone", id |-> req.id, doc |-> updated]
  /\ UNCHANGED <<emails, loading, error, isGenerating, crashed>>
  /\ UNCHANGED <<dashVars, sortVars>>

\* handleSend: "For now, just close the detail view"
boardSend(ticketId, draftBody) ==
  /\ BoardView = "detail" /\ ~isClosed(boardSelected)
  /\ ticketId = Field(boardSelected, "id")
  /\ boardSelected' = None
  /\ inFlight' = Detach(inFlight)
  /\ isGenerating' = FALSE
  /\ last' = [op |-> "Send", id |-> ticketId]
  /\ UNCHANGED <<emails, loading, error, crashed>>
  /\ UNCHANGED <<dashVars, sortVars>>

\* handleSimulateReply: "For now, just close the detail view"
boardSimulateReply(ticketId) ==
  /\ BoardView = "detail" /\ isClosed(boardSelected)
  /\ ticketId = Field(boardSelected, "id")
  /\ boardSelected' = None
  /\ inFlight' = Detach(inFlight)
  /\ isGenerating' = FALSE
  /\ last' = [op |-> "SimulateReply", id |-> ticketId]
  /\ UNCHANGED <<emails, loading, error, crashed>>
  /\ UNCHANGED <<dashVars, sortVars>>

boardBackHome ==
  /\ BoardView = "detail"
  /\ boardSelected' = None
  /\ inFlight' = Detach(inFlight)
  /\ isGenerating' = FALSE
  /\ last' = [op |-> "Back"]
  /\ UNCHANGED <<emails, loading, error, crashed>>
  /\ UNCHANGED <<dashVars, sortVars>>

----------------------------------------------------------------------------
(* EmailDetail: the Generate flow, and the parent's handleDetailRefresh *)

\* handleGenerate up to its first await (the OCR call)
handleGenerate ==
  /\ BoardView = "detail" /\ ~isGenerating
  /\ CanIssue
  /\ isGenerating' = TRUE
  /\ inFlight' = Issue([op |-> "ocr", id |-> Field(boardSelected, "id"), live |-> TRUE])
  /\ last' = [op |-> "Generate", id |-> Field(boardSelected, "id")]
  /\ UNCHANGED <<emails, loading, error, boardSelected, crashed>>
  /\ UNCHANGED <<dashVars, sortVars>>

GenTimer(req) == [op |-> "genTimer", live |-> req.live]

\* a call of handleGenerate resolved with res.ok: the next call is issued
generateStepOk(req, op, nextOp) ==
  /\ Pending(req) /\ req.op = op
  /\ inFlight' = Replace(req, [op |-> nextOp, id |-> req.id, live |-> req.live])
  /\ last' = [op |-> op \o "Ok", id |-> req.id]
  /\ UNCHANGED <<emails, loading, error, boardSelected, isGenerating, crashed>>
  /\ UNCHANGED <<dashVars, sortVars>>

\* a call of handleGenerate rejected or answered non-2xx: catch (alert), then
\* finally arms the 400 ms timer
generateStepFailed(req) ==
  /\ Pending(req) /\ req.op \in {"ocr", "draft", "genDoc"}
  /\ inFlight' = Replace(req, GenTimer(req))
  /\ last' = [op |-> "GenerateFail", id |-> req.id, at |-> req.op]
  /\ UNCHANGED <<emails, loading, error, boardSelected, isGenerating, crashed>>
  /\ UNCHANGED <<dashVars, sortVars>>

\* mutant of FirstParsed: a text that does not parse ends the search
FirstParsed_Aborts(atts) ==
  IF atts = <<>> THEN None
  ELSE LET a == Head(atts)
       IN IF a.ocr # None /\ "text" \in DOMAIN a.ocr /\ a.ocr.text.json
          THEN a.ocr.text.value
          ELSE None

\* JSON.parse(a.ocr.text) of the first attachment whose text parses; None
\* when no attachment has parsable OCR text
RECURSIVE FirstParsed(_)
FirstParsed(atts) ==
  IF atts = <<>> THEN None
  ELSE LET a == Head(atts)
       IN IF a.ocr # None /\ "text" \in DOMAIN a.ocr /\ a.ocr.text.json
          THEN a.ocr.text.value
          ELSE FirstParsed(Tail(atts))

\* parsed.f ?? null
Nullish(parsed, f) == IF f \in DOMAIN parsed THEN parsed[f] ELSE "null"

ExtractedOf(parsed) ==
  IF parsed = None THEN NoExtraction
  ELSE [ merchant |-> Nullish(parsed, "merchant"),
         date |-> Nullish(parsed, "date"),
         total |-> Nullish(parsed, "total"),
         model |-> Nullish(parsed, "model"),
         store_number |-> Nullish(parsed, "store_number") ]

ScoresOf(parsed) ==
  IF parsed = None THEN [confidence |-> 0, duplication |-> 0]
  ELSE [ confidence |-> NumOr(parsed, "confidence_score", 0),
         duplication |-> NumOr(parsed, "duplication_score", 0) ]

\* the object handleGenerate hands to onRefresh
RefreshPayload(freshDoc) ==
  LET atts == MapAttachments(ObjOr(freshDoc, "attachments", <<>>))
      parsed == FirstParsed(atts)
      base == With(With(With(freshDoc, "attachments", atts),
                        "extracted", ExtractedOf(parsed)),
                   "scores", ScoresOf(parsed))
  IN base

StrTruthy(obj, f) == f \in DOMAIN obj /\ obj[f] # ""
NumTruthy(obj, f) == f \in DOMAIN obj /\ obj[f] # 0
ObjTruthy(obj, f) == f \in DOMAIN obj

\* { ...obj, key: fresh || prev[pf] }: a property whose value is undefined
\* is modelled as an absent one
Without(obj, f) == [x \in DOMAIN obj \ {f} |-> obj[x]]
Merge(obj, key, freshDoc, f, truthy, prev, pf) ==
  IF truthy THEN With(obj, key, freshDoc[f])
  ELSE IF pf \in DOMAIN prev THEN With(obj, key, prev[pf])
  ELSE Without(obj, key)

\* handleDetailRefresh reads prev.<field> for these when freshDoc lacks them
NeedsPrev(freshDoc) ==
  \/ ~StrTruthy(freshDoc, "id")
  \/ ~StrTruthy(freshDoc, "subject")
  \/ ~StrTruthy(freshDoc, "body")
  \/ ~NumTruthy(freshDoc, "overall_confidence")
  \/ ~NumTruthy(freshDoc, "overall_duplication")
  \/ ~ObjTruthy(freshDoc, "draft_reply")

\* the updater of handleDetailRefresh
Refreshed(prev, freshDoc) ==
  LET p == IF prev = None THEN [x \in {} |-> 0] ELSE prev
      r1 == Merge(p, "id", freshDoc, "id", StrTruthy(freshDoc, "id"), p, "id")
      r2 == Merge(r1, "email_id", freshDoc, "id", StrTruthy(freshDoc, "id"), p, "email_id")
      r3 == Merge(r2, "subject", freshDoc, "subject", StrTruthy(freshDoc, "subject"), p, "subject")
      r4 == Merge(r3, "email_body", freshDoc, "body", StrTruthy(freshDoc, "body"), p, "email_body")
      r5 == Merge(r4, "attachments", freshDoc, "attachments", TRUE, p, "attachments")
      r6 == Merge(r5, "extracted", freshDoc, "extracted", TRUE, p, "extracted")
      r7 == Merge(r6, "scores", freshDoc, "scores", TRUE, p, "scores")
      r8 == Merge(r7, "overall_confidence", freshDoc, "overall_confidence",
                  NumTruthy(freshDoc, "overall_confidence"), p, "overall_confidence")
      r9 == Merge(r8, "overall_duplication", freshDoc, "overall_duplication",
                  NumTruthy(freshDoc, "overall_duplication"), p, "overall_duplication")
  IN Merge(r9, "draft_reply", freshDoc, "draft_reply",
           ObjTruthy(freshDoc, "draft_reply"), p, "draft_reply")

\* handleDetailRefresh: with nothing selected the updater dereferences null
\* unless freshDoc supplies every field, and the throw unmounts the page
handleDetailRefresh(payload) ==
  IF boardSelected = None /\ NeedsPrev(payload)
  THEN /\ crashed' = TRUE
       /\ UNCHANGED boardSelected
  ELSE /\ boardSelected' = Refreshed(boardSelected, payload)
       /\ UNCHANGED crashed

\* handleGenerate after the fetch of the updated document resolved
generateFetched(req, freshDoc) ==
  /\ Pending(req) /\ req.op = "genDoc"
  /\ handleDetailRefresh(RefreshPayload(freshDoc))
  /\ inFlight' = Replace(req, GenTimer(req))
  /\ last' = [op |-> "GenerateDone", id |-> req.id, doc |-> freshDoc]
  /\ UNCHANGED <<emails, loading, error, isGenerating>>
  /\ UNCHANGED <<dashVars, sortVars>>

\* the timer armed by finally: setIsGenerating(false) on the issuing instance
generateTimer(req) ==
  /\ Pending(req) /\ req.op = "genTimer"
  /\ isGenerating' = IF req.live THEN FALSE ELSE isGenerating
  /\ inFlight' = Settle(req)
  /\ last' = [op |-> "GenerateTimer"]
  /\ UNCHANGED <<emails, loading, error, boardSelected, crashed>>
  /\ UNCHANGED <<dashVars, sortVars>>

\* the scores EmailDetail displays: overall_confidence ?? scores?.confidence
\* ?? 0 and overall_duplication ?? scores?.duplication ?? 0
conf(ticket) ==
  IF "overall_confidence" \in DOMAIN ticket THEN ticket.overall_confidence
  ELSE IF "scores" \in DOMAIN ticket THEN ticket.scores.confidence
  ELSE 0

dup(ticket) ==
  IF "overall_duplication" \in DOMAIN ticket THEN ticket.overall_duplication
  ELSE IF "scores" \in DOMAIN ticket THEN ticket.scores.duplication
  ELSE 0

BoardInit ==
  /\ incomingEmails = <<>>
  /\ tickets = <<>>
  /\ selected = None
  /\ last = [op |-> "init"]
  /\ Mounted

\* the calls in flight that a handler issued at the given await
Requests(op) == {req \in BagToSet(inFlight) : req.op = op}

BoardRefresh == refreshEmails
ListOk == \E agentEmails \in BackendLists : listResolved(agentEmails)
ListFail == listRejected
BoardOpen == \E i \in 1..Len(EmailIds) : handleOpenEmail(EmailIds[i])
OpenShown == \E req \in Requests("openDoc") : \E doc \in DocPool(req.email.id) :
               openDocSettled(req, doc)
AckOk == \E req \in Requests("ticket") : ticketAcked(req)
AckFail == \E req \in Requests("ticket") : ticketRejected(req)
BoardSave == \E draftBody \in BoardDrafts :
               boardSave(Field(boardSelected, "id"), draftBody)
SaveOk == \E req \in Requests("save") : saveResolved(req)
SaveFail == \E req \in Requests("save") : saveRejected(req)
SaveDone == \E req \in Requests("saveDoc") : \E updated \in DocPool(req.id) :
              saveDocSettled(req, updated)
BoardSend == \E draftBody \in BoardDrafts :
               boardSend(Field(boardSelected, "id"), draftBody)
BoardSimulateReply == boardSimulateReply(Field(boardSelected, "id"))
BoardBack == boardBackHome
Generate == handleGenerate
OcrOk == \E req \in Requests("ocr") : generateStepOk(req, "ocr", "draft")
DraftOk == \E req \in Requests("draft") : generateStepOk(req, "draft", "genDoc")
GenerateFail == \E req \in BagToSet(inFlight) : generateStepFailed(req)
GenerateDone == \E req \in Requests("genDoc") : \E freshDoc \in DocPool(req.id) :
                  generateFetched(req, freshDoc)
GenerateTimer == \E req \in Requests("genTimer") : generateTimer(req)

BoardNext ==
  \/ BoardRefresh
  \/ ListOk
  \/ ListFail
  \/ BoardOpen
  \/ OpenShown
  \/ AckOk
  \/ AckFail
  \/ BoardSave
  \/ SaveOk
  \/ SaveFail
  \/ SaveDone
  \/ BoardSend
  \/ BoardSimulateReply
  \/ BoardBack
  \/ Generate
  \/ OcrOk
  \/ DraftOk
  \/ GenerateFail
  \/ GenerateDone
  \/ GenerateTimer

BoardSpec == BoardInit /\ [][BoardNext]_vars

----------------------------------------------------------------------------
(* Either page: the page that is not mounted keeps its initial state, in   *)
(* which none of its handlers can run (no element of it is on screen and   *)
(* none of its calls is in flight).                                        *)

AppInit == Init \/ BoardInit
AppNext == Next \/ BoardNext
AppSpec == AppInit /\ [][AppNext]_vars

----------------------------------------------------------------------------
(* Sender normalisation (the same code in transformEmailData of the sort   *)
(* board and in refreshEmails of the agent board).  A JavaScript string is *)
(* a sequence of one-character strings; the emailAddress property holds    *)
(* [chars |-> ...] for a string, a record of name and address for an       *)
(* object, None for null.                                                  *)

NameKey == <<"n", "a", "m", "e", "=">>
AddressKey == <<"a", "d", "d", "r", "e", "s", "s", "=">>
Unknown == <<"U", "n", "k", "n", "o", "w", "n">>
UnknownAddress ==
  <<"u", "n", "k", "n", "o", "w", "n", "@", "e", "x", "a", "m", "p", "l", "e",
    ".", "c", "o", "m">>

\* key occurs in chars at position p
StartsAt(chars, key, p) ==
  /\ p + Len(key) - 1 <= Len(chars)
  /\ \A i \in 1..Len(key) : chars[p + i - 1] = key[i]

\* chars.match(/key([^stop]+)/): the capture of the leftmost match, taken as
\* far as it goes; the empty sequence when there is no match (a capture is
\* never empty)
Capture(chars, key, stop) ==
  LET starts == {p \in 1..Len(chars) :
                   /\ StartsAt(chars, key, p)
                   /\ p + Len(key) <= Len(chars)
                   /\ chars[p + Len(key)] # stop}
  IN IF starts = {} THEN <<>>
     ELSE LET p == CHOOSE q \in starts : \A r \in starts : q <= r
              from == p + Len(key)
              ends == {e \in from..Len(chars) :
                         \A i \in from..e : chars[i] # stop}
              to == CHOOSE e \in ends : \A r \in ends : r <= e
          IN SubSeq(chars, from, to)

\* a || b on a property that holds a string (a sequence of characters)
CharsOr(obj, f, default) ==
  IF f \in DOMAIN obj /\ obj[f] # <<>> THEN obj[f] ELSE default

\* email.from?.emailAddress is truthy
HasEmailAddress(email) ==
  /\ "from" \in DOMAIN email
  /\ email.from # None
  /\ "emailAddress" \in DOMAIN email.from
  /\ email.from.emailAddress # None
  /\ email.from.emailAddress # [chars |-> <<>>]

\* mutant of NormalizeSender: the address is searched for after the name only
NormalizeSender_NameForBoth(email) ==
  IF ~HasEmailAddress(email)
  THEN [name |-> Unknown, email |-> UnknownAddress]
  ELSE LET emailAddress == email.from.emailAddress
       IN IF "chars" \in DOMAIN emailAddress
          THEN LET nameMatch == Capture(emailAddress.chars, NameKey, ";")
               IN [name |-> IF nameMatch # <<>> THEN nameMatch ELSE Unknown,
                   email |-> IF nameMatch # <<>> THEN nameMatch
                             ELSE UnknownAddress]
          ELSE [name |-> CharsOr(emailAddress, "name", Unknown),
                email |-> CharsOr(emailAddress, "address", UnknownAddress)]

\* fromName and fromEmail of transformEmailData
NormalizeSender(email) ==
  IF ~HasEmailAddress(email)
  THEN [name |-> Unknown, email |-> UnknownAddress]
  ELSE LET emailAddress == email.from.emailAddress
       IN IF "chars" \in DOMAIN emailAddress
          THEN LET nameMatch == Capture(emailAddress.chars, NameKey, ";")
                   emailMatch == Capture(emailAddress.chars, AddressKey, "}")
               IN [name |-> IF nameMatch # <<>> THEN nameMatch ELSE Unknown,
                   email |-> IF emailMatch # <<>> THEN emailMatch
                             ELSE UnknownAddress]
          ELSE [name |-> CharsOr(emailAddress, "name", Unknown),
                email |-> CharsOr(emailAddress, "address", UnknownAddress)]

\* the string "@{name=N; address=A}"
SenderString(N, A) ==
  <<"@", "{">> \o NameKey \o N \o <<";", " ">> \o AddressKey \o A \o <<"}">>

----------------------------------------------------------------------------
(* The sort board: data *)

ANALYSTS == <<"agent_001", "agent_002", "agent_003", "agent_004">>

\* no agent: null
NoAgent == "null"

Nina == <<"N", "i", "n", "a">>
NinaAddress == <<"n", "@", "x">>

\* the emails shown when the first load fails (subjects and senders
\* abridged)
SEED_EMAILS ==
  [i \in 1..4 |->
     [id |-> "E-100" \o ToString(i), subject |-> "seed " \o ToString(i),
      from |-> [name |-> Nina, email |-> NinaAddress],
      assignedTo |-> NoAgent, ticket |-> "null"]]

\* a backend record; agent "" stands for a record without assigned_agent
RawSortEmail(id, agent) ==
  [id |-> id, subject |-> "subject " \o id,
   from |-> [emailAddress |-> [chars |-> SenderString(Nina, NinaAddress)]],
   assigned_agent |-> agent, ticket |-> "new"]

\* the lists GET /emails?status=new may answer with; the backend may still
\* name an agent on a new email
NewLists ==
  { <<>>,
    <<RawSortEmail("n1", "")>>,
    <<RawSortEmail("n1", ""), RawSortEmail("n2", ANALYSTS[2])>> }

\* the lists GET /emails?status=categorized may answer with: emails with
\* and without an assigned agent
CategorizedLists ==
  { <<>>,
    <<RawSortEmail("c1", ANALYSTS[1])>>,
    <<RawSortEmail("c1", ANALYSTS[1]), RawSortEmail("c2", "")>> }

\* the messages of the errors the calls of api.js reject with
FetchEmailsErrors == {"Failed to fetch", "Failed to fetch emails: Internal Server Error"}
CategorizeErrors == {"Failed to categorize emails: Internal Server Error"}
IngestErrors == {"Failed to ingest emails: Internal Server Error"}

----------------------------------------------------------------------------
(* The sort board: handlers *)

transformEmailData(email, idx, isNewEmail) ==
  [ id |-> StrOr(email, "id", "E-" \o ToString(idx)),
    subject |-> StrOr(email, "subject", "No Subject"),
    from |-> NormalizeSender(email),
    assignedTo |-> IF isNewEmail THEN NoAgent
                   ELSE StrOr(email, "assigned_agent", NoAgent),
    ticket |-> StrOr(email, "ticket", "null") ]

transformAll(list, isNewEmail) ==
  [i \in 1..Len(list) |-> transformEmailData(list[i], i, isNewEmail)]

\* !e.assignedTo
Unassigned(e) == e.assignedTo \in {NoAgent, ""}

inboxEmails == SelectSeq(emails, Unassigned)

byAssignee(analyst) ==
  SelectSeq(categorizedEmails, LAMBDA e : e.assignedTo = analyst)

\* what the Incoming Email section renders
InboxView ==
  IF loading THEN "loading"
  ELSE IF sorting THEN "sorting"
  ELSE IF checking THEN "checking"
  ELSE IF error # NoError THEN "error"
  ELSE "list"

SortFrame == UNCHANGED <<boardSelected, isGenerating, crashed, dashVars>>

\* the effect of the sort board mounting: loadEmails() up to its await
SortMounted ==
  /\ emails = <<>>
  /\ categorizedEmails = <<>>
  /\ loading = TRUE
  /\ sorting = FALSE
  /\ checking = FALSE
  /\ started = NotKept
  /\ error = NoError
  /\ boardSelected = None
  /\ inFlight = SetToBag({[op |-> "sbLoad"]})
  /\ isGenerating = FALSE
  /\ crashed = FALSE

\* loadEmails / handleRefreshEmails after both lists arrived
sortListsResolved(req, new, categorized, op) ==
  /\ Pending(req)
  /\ emails' = transformAll(new, TRUE)
  /\ categorizedEmails' = transformAll(categorized, FALSE)
  /\ loading' = FALSE
  /\ inFlight' = Settle(req)
  /\ last' = [op |-> op]
  /\ UNCHANGED <<error, sorting, checking>>
  /\ UNCHANGED started
  /\ SortFrame

\* loadEmails after one of the two calls rejected: the seed emails are shown
loadRejected(msg) ==
  /\ Pending([op |-> "sbLoad"])
  /\ error' = msg
  /\ emails' = SEED_EMAILS
  /\ categorizedEmails' = <<>>
  /\ loading' = FALSE
  /\ inFlight' = Settle([op |-> "sbLoad"])
  /\ last' = [op |-> "SortLoadFail"]
  /\ UNCHANGED <<sorting, checking>>
  /\ UNCHANGED started
  /\ SortFrame

\* the Refresh button (disabled while loading) up to the await
handleRefreshEmails ==
  /\ ~loading
  /\ loading' = TRUE
  /\ error' = NoError
  /\ inFlight' = Issue([op |-> "sbRefresh"])
  /\ last' = [op |-> "SortRefresh"]
  /\ UNCHANGED <<emails, categorizedEmails, sorting, checking>>
  /\ started' = StartedNow("refresh")
  /\ SortFrame

\* mutant of refreshRejected: the failure is only logged
refreshRejected_Silent(msg) ==
  /\ Pending([op |-> "sbRefresh"])
  /\ loading' = FALSE
  /\ inFlight' = Settle([op |-> "sbRefresh"])
  /\ last' = [op |-> "SortRefreshFail"]
  /\ UNCHANGED <<error, emails, categorizedEmails, sorting, checking>>
  /\ UNCHANGED started
  /\ SortFrame

\* handleRefreshEmails after one of the two calls rejected
refreshRejected(msg) ==
  /\ Pending([op |-> "sbRefresh"])
  /\ error' = msg
  /\ loading' = FALSE
  /\ inFlight' = Settle([op |-> "sbRefresh"])
  /\ last' = [op |-> "SortRefreshFail"]
  /\ UNCHANGED <<emails, categorizedEmails, sorting, checking>>
  /\ UNCHANGED started
  /\ SortFrame

\* the Sort button up to the await of categorizeEmails()
handleFilterSort ==
  /\ ~loading /\ ~sorting /\ ~checking
  /\ Len(inboxEmails) # 0
  /\ sorting' = TRUE
  /\ error' = NoError
  /\ inFlight' = Issue([op |-> "categorize"])
  /\ last' = [op |-> "FilterSort"]
  /\ UNCHANGED <<emails, categorizedEmails, loading, checking>>
  /\ started' = StartedNow("sort")
  /\ SortFrame

\* categorizeEmails() resolved: the two lists are fetched
categorizeResolved ==
  /\ Pending([op |-> "categorize"])
  /\ inFlight' = Replace([op |-> "categorize"], [op |-> "sbSortLists"])
  /\ last' = [op |-> "CategorizeOk"]
  /\ UNCHANGED <<emails, categorizedEmails, loading, sorting, checking, error>>
  /\ UNCHANGED started
  /\ SortFrame

\* handleFilterSort after the two lists arrived
sortResolved(new, categorized) ==
  /\ Pending([op |-> "sbSortLists"])
  /\ emails' = transformAll(new, TRUE)
  /\ categorizedEmails' = transformAll(categorized, FALSE)
  /\ sorting' = FALSE
  /\ inFlight' = Settle([op |-> "sbSortLists"])
  /\ last' = [op |-> "SortListsOk"]
  /\ UNCHANGED <<loading, checking, error>>
  /\ UNCHANGED started
  /\ SortFrame

\* mutant of sortRejected: the finally block is missing
sortRejected_StaysBusy(req, msg) ==
  /\ Pending(req)
  /\ error' = "Failed to categorize emails: " \o msg
  /\ inFlight' = Settle(req)
  /\ last' = [op |-> "SortFail"]
  /\ UNCHANGED <<emails, categorizedEmails, loading, sorting, checking>>
  /\ UNCHANGED started
  /\ SortFrame

\* handleFilterSort after categorizeEmails() or a list call rejected
sortRejected(req, msg) ==
  /\ Pending(req)
  /\ error' = "Failed to categorize emails: " \o msg
  /\ sorting' = FALSE
  /\ inFlight' = Settle(req)
  /\ last' = [op |-> "SortFail"]
  /\ UNCHANGED <<emails, categorizedEmails, loading, checking>>
  /\ UNCHANGED started
  /\ SortFrame

\* the Check Inbox button up to the await of ingestEmails()
handleCheckInbox ==
  /\ ~loading /\ ~sorting /\ ~checking
  /\ checking' = TRUE
  /\ error' = NoError
  /\ inFlight' = Issue([op |-> "ingest"])
  /\ last' = [op |-> "CheckInbox"]
  /\ UNCHANGED <<emails, categorizedEmails, loading, sorting>>
  /\ started' = StartedNow("check")
  /\ SortFrame

\* ingestEmails() resolved: the new emails are fetched
ingestResolved ==
  /\ Pending([op |-> "ingest"])
  /\ inFlight' = Replace([op |-> "ingest"], [op |-> "sbCheckList"])
  /\ last' = [op |-> "IngestOk"]
  /\ UNCHANGED <<emails, categorizedEmails, loading, sorting, checking, error>>
  /\ UNCHANGED started
  /\ SortFrame

\* handleCheckInbox after the new emails arrived: only the incoming list is
\* replaced
checkResolved(new) ==
  /\ Pending([op |-> "sbCheckList"])
  /\ emails' = transformAll(new, TRUE)
  /\ checking' = FALSE
  /\ inFlight' = Settle([op |-> "sbCheckList"])
  /\ last' = [op |-> "CheckListOk"]
  /\ UNCHANGED <<categorizedEmails, loading, sorting, error>>
  /\ UNCHANGED started
  /\ SortFrame

\* handleCheckInbox after ingestEmails() or fetchEmails('new') rejected
checkRejected(req, msg) ==
  /\ Pending(req)
  /\ error' = "Failed to check inbox: " \o msg
  /\ checking' = FALSE
  /\ inFlight' = Settle(req)
  /\ last' = [op |-> "CheckFail"]
  /\ UNCHANGED <<emails, categorizedEmails, loading, sorting>>
  /\ UNCHANGED started
  /\ SortFrame

SortInit ==
  /\ incomingEmails = <<>>
  /\ tickets = <<>>
  /\ selected = None
  /\ last = [op |-> "init"]
  /\ SortMounted

SortLoadOk == \E new \in NewLists, categorized \in CategorizedLists :
                sortListsResolved([op |-> "sbLoad"], new, categorized, "SortLoadOk")
SortLoadFail == \E msg \in FetchEmailsErrors : loadRejected(msg)
SortRefresh == handleRefreshEmails
SortRefreshOk == \E new \in NewLists, categorized \in CategorizedLists :
                   sortListsResolved([op |-> "sbRefresh"], new, categorized,
                                     "SortRefreshOk")
SortRefreshFail == \E msg \in FetchEmailsErrors : refreshRejected(msg)
FilterSort == handleFilterSort
CategorizeOk == categorizeResolved
CategorizeFail == \E msg \in CategorizeErrors : sortRejected([op |-> "categorize"], msg)
SortListsOk == \E new \in NewLists, categorized \in CategorizedLists :
                 sortResolved(new, categorized)
SortListsFail == \E msg \in FetchEmailsErrors : sortRejected([op |-> "sbSortLists"], msg)
CheckInbox == handleCheckInbox
IngestOk == ingestResolved
IngestFail == \E msg \in IngestErrors : checkRejected([op |-> "ingest"], msg)
CheckListOk == \E new \in NewLists : checkResolved(new)
CheckListFail == \E msg \in FetchEmailsErrors : checkRejected([op |-> "sbCheckList"], msg)

SortNext ==
  \/ SortLoadOk
  \/ SortLoadFail
  \/ SortRefresh
  \/ SortRefreshOk
  \/ SortRefreshFail
  \/ FilterSort
  \/ CategorizeOk
  \/ CategorizeFail
  \/ SortListsOk
  \/ SortListsFail
  \/ CheckInbox
  \/ IngestOk
  \/ IngestFail
  \/ CheckListOk
  \/ CheckListFail

SortSpec == SortInit /\ [][SortNext]_vars

\* the sort board with the history of started kept
SortHistInit ==
  /\ incomingEmails = <<>>
  /\ tickets = <<>>
  /\ selected = None
  /\ last = [op |-> "init"]
  /\ emails = <<>>
  /\ categorizedEmails = <<>>
  /\ loading = TRUE
  /\ sorting = FALSE
  /\ checking = FALSE
  /\ started = NotStarted
  /\ error = NoError
  /\ boardSelected = None
  /\ inFlight = SetToBag({[op |-> "sbLoad"]})
  /\ isGenerating = FALSE
  /\ crashed = FALSE

SortHistSpec == SortHistInit /\ [][SortNext]_vars

\* every network call eventually settles: the browser answers each call,
\* with a response or with a failure
SortCallsSettle ==
  /\ WF_vars(SortLoadOk \/ SortLoadFail)
  /\ WF_vars(SortRefreshOk \/ SortRefreshFail)
  /\ WF_vars(CategorizeOk \/ CategorizeFail)
  /\ WF_vars(SortListsOk \/ SortListsFail)
  /\ WF_vars(IngestOk \/ IngestFail)
  /\ WF_vars(CheckListOk \/ CheckListFail)

SortFairSpec == SortSpec /\ SortCallsSettle

----------------------------------------------------------------------------
(* Score formatting: fmt(n) of EmailDetail and EmailRow.  A JavaScript     *)
(* value is a record: a finite number carries its value in tenths, the     *)
(* other numbers are NaN, Infinity and -Infinity, and the values of the    *)
(* other types carry only their type.                                      *)

\* the finite numbers drawn reach this many tenths below 0 and above 100
MaxOver == 25

JsNumbers ==
  {[type |-> "number", tenths |-> t] : t \in (0 - MaxOver)..(1000 + MaxOver)}
    \cup {[type |-> "number", special |-> s] : s \in {"NaN", "Infinity", "-Infinity"}}

JsOthers ==
  {[type |-> "string", text |-> "85"], [type |-> "undefined"],
   [type |-> "object", null |-> TRUE], [type |-> "boolean", bool |-> TRUE]}

FmtInputs == JsNumbers \cup JsOthers

\* the em dash (U+2014) the function returns, written in ASCII
Placeholder == "--"

\* Math.round of a finite number given in tenths: halves go up
Round(tenths) == (tenths + 5) \div 10

Min(a, b) == IF a <= b THEN a ELSE b
Max(a, b) == IF a >= b THEN a ELSE b

\* fmt(n): Math.round, Math.min and Math.max hand NaN through, Math.min
\* caps Infinity at 100 and Math.max raises -Infinity to 0
fmt(n) ==
  IF n.type # "number" THEN Placeholder
  ELSE IF "special" \in DOMAIN n
       THEN (CASE n.special = "NaN" -> "NaN%"
               [] n.special = "Infinity" -> "100%"
               [] n.special = "-Infinity" -> "0%")
       ELSE ToString(Max(0, Min(100, Round(n.tenths)))) \o "%"

\* a value is handed to fmt
FmtInit ==
  /\ incomingEmails = <<>>
  /\ tickets = <<>>
  /\ selected = None
  /\ BoardIdle
  /\ \E n \in FmtInputs : last = [op |-> "input", n |-> n]

Fmt ==
  /\ last.op = "input"
  /\ last' = [op |-> "fmt", n |-> last.n, text |-> fmt(last.n)]
  /\ UNCHANGED <<dashVars, boardVars, sortVars>>

FmtNext == Fmt

FmtSpec == FmtInit /\ [][FmtNext]_vars

----------------------------------------------------------------------------
(* Sender normalisation applied to the sender shapes a backend record may  *)
(* carry.  A case is a record together with the way it was built.          *)

\* the texts drawn for N and A have at most this many characters
MaxLen == 2

\* a letter and the two characters the patterns stop at
SenderAlphabet == {"a", ";", "}"}
Texts == UNION {[1..n -> SenderAlphabet] : n \in 0..MaxLen}

Names == Texts \cup {Nina, AddressKey \o <<"a">>, NameKey \o <<"a">>}
Addresses == Texts \cup {NinaAddress}

\* a backend record whose from.emailAddress is the given value
SentBy(emailAddress) == [id |-> "m1", from |-> [emailAddress |-> emailAddress]]

\* strings of the form "@{name=N; address=A}"
FormCases ==
  {[email |-> SentBy([chars |-> SenderString(N, A)]),
    shape |-> [kind |-> "form", N |-> N, A |-> A]] : N \in Names, A \in Addresses}

\* other strings: empty, without either key, with one key only
StringCases ==
  {[email |-> SentBy([chars |-> chars]), shape |-> [kind |-> "string"]] :
     chars \in {<<>>, <<"h", "i">>, NameKey \o Nina, AddressKey \o NinaAddress}}

\* structured objects: each of name and address present, empty or missing
ObjectCases ==
  {[email |-> SentBy(obj), shape |-> [kind |-> "object"]] :
     obj \in {[name |-> Nina, address |-> NinaAddress],
              [name |-> Nina], [address |-> NinaAddress],
              [name |-> <<>>, address |-> NinaAddress],
              [name |-> Nina, address |-> <<>>], [other |-> TRUE]}}

\* no sender: no from field, from null, from without emailAddress,
\* emailAddress null
AbsentCases ==
  {[email |-> e, shape |-> [kind |-> "absent"]] :
     e \in {[id |-> "m1"], [id |-> "m1", from |-> None],
            [id |-> "m1", from |-> [name |-> Nina]], SentBy(None)}}

SenderCases == FormCases \cup StringCases \cup ObjectCases \cup AbsentCases

\* a backend record is handed to the transform
SenderInit ==
  /\ incomingEmails = <<>>
  /\ tickets = <<>>
  /\ selected = None
  /\ BoardIdle
  /\ \E c \in SenderCases :
       last = [op |-> "input", email |-> c.email, shape |-> c.shape]

\* the transform returns the normalised sender
Normalize ==
  /\ last.op = "input"
  /\ last' = [op |-> "normalizeSender", email |-> last.email,
              shape |-> last.shape, from |-> NormalizeSender(last.email)]
  /\ UNCHANGED <<dashVars, boardVars, sortVars>>

SenderNext == Normalize

SenderSpec == SenderInit /\ [][SenderNext]_vars

----------------------------------------------------------------------------
(* Generate when the fetched document carries attachments of every kind:   *)
(* without OCR result, with OCR text that does not parse, with OCR text    *)
(* that parses.  The agent board with one listed email, opened and         *)
(* generated.                                                              *)

\* the fetched document has at most this many attachments
MaxAtts == 2

PlainAttachment == [name |-> "photo.png", blobPath |-> "photo.png"]
\* JSON.parse throws on this text
BrokenOcrAttachment ==
  [name |-> "scan.png", blobPath |-> "scan.png", ocr |-> [text |-> [json |-> FALSE]]]
OtherOcrAttachment ==
  [name |-> "invoice.png", blobPath |-> "invoice.png",
   ocr |-> [text |-> [json |-> TRUE,
                      value |-> [merchant |-> "Target", date |-> "2024-01-05",
                                 confidence_score |-> 70,
                                 duplication_score |-> 20]]]]

AttachmentKinds(id) ==
  {PlainAttachment, BrokenOcrAttachment, OcrAttachment(id), OtherOcrAttachment}

AttachmentLists(id) == UNION {[1..n -> AttachmentKinds(id)] : n \in 0..MaxAtts}

\* the documents the fetch of Generate may answer with
OcrDocs(id) ==
  {[id |-> id, ticket |-> "open", attachments |-> atts] : atts \in AttachmentLists(id)}

GenList == listResolved(<<RawEmail(EmailIds[1], "open")>>)
GenOpen == handleOpenEmail(EmailIds[1])
GenOpenShown == \E req \in Requests("openDoc") : openDocSettled(req, EmptyDoc)
GenerateDoneOcr == \E req \in Requests("genDoc") : \E freshDoc \in OcrDocs(req.id) :
                     generateFetched(req, freshDoc)

GenNext ==
  \/ GenList
  \/ GenOpen
  \/ GenOpenShown
  \/ Generate
  \/ OcrOk
  \/ DraftOk
  \/ GenerateFail
  \/ GenerateDoneOcr
  \/ GenerateTimer

GenSpec == BoardInit /\ [][GenNext]_vars

GenerateCalls == {"ocr", "draft", "genDoc"}

\* how many calls of the given kinds are in flight
CallsInFlight(ops) ==
  BagCardinality([req \in {r \in BagToSet(inFlight) : r.op \in ops}
                    |-> CopiesIn(req, inFlight)])

\* a call of handleGenerate is issued only by the step before it: OCR by the
\* button, the draft by the OCR's success, the fetch by the draft's success
IssuedInOrder ==
  /\ CallsInFlight({"ocr"})' > CallsInFlight({"ocr"}) => last'.op = "Generate"
  /\ CallsInFlight({"draft"})' > CallsInFlight({"draft"}) => last'.op = "ocrOk"
  /\ CallsInFlight({"genDoc"})' > CallsInFlight({"genDoc"}) => last'.op = "draftOk"

\* a failed call issues nothing, leaves the selected ticket alone and arms the
\* timer that clears the flag
FailureStops ==
  last'.op = "GenerateFail" =>
    /\ CallsInFlight(GenerateCalls)' = CallsInFlight(GenerateCalls) - 1
    /\ CallsInFlight({"genTimer"})' = CallsInFlight({"genTimer"}) + 1
    /\ boardSelected' = boardSelected

\* the flag is set only while a call or the timer of the mounted detail view
\* is pending
FlagBacked ==
  (isGenerating /\ ~crashed) =>
    \E req \in BagToSet(inFlight) :
      req.op \in GenerateCalls \cup {"genTimer"} /\ req.live

\* C29: Generate issues its OCR, draft and fetch calls strictly in that order,
\* each only after the previous one succeeded; when a call fails no later call
\* is issued, the selected ticket is unchanged and the generating flag is
\* still cleared; while a Generate is in flight a second one cannot start.
C29_GenerateSequential ==
  /\ [][IssuedInOrder]_vars
  /\ [][FailureStops]_vars
  /\ []FlagBacked
  /\ [][last'.op = "Generate" => CallsInFlight(GenerateCalls) = 0]_vars

----------------------------------------------------------------------------
(* Claims about the ticket-synthesizing Dashboard *)

IsPrefix(s, t) == Len(s) <= Len(t) /\ \A i \in 1..Len(s) : s[i] = t[i]

KeysUnique ==
  \A i, j \in 1..Len(tickets) :
    tickets[i].ingestionKey = tickets[j].ingestionKey => i = j

\* the step just taken opened an incoming email whose key an existing ticket had
ReopenedExisting ==
  /\ last'.op = "OpenIncoming"
  /\ \E k \in 1..Len(tickets) :
       tickets[k].ingestionKey = IngestionKey(last'.email)

\* C1: no two tickets of the collection share an ingestionKey, and opening an
\* incoming email whose ingestionKey an existing ticket has selects that
\* ticket and leaves the collection unchanged.
C1_IngestionKeyIdempotent ==
  /\ []KeysUnique
  /\ [][ReopenedExisting =>
          /\ tickets' = tickets
          /\ \E k \in 1..Len(tickets) :
               /\ tickets[k].ingestionKey = IngestionKey(last'.email)
               /\ selected' = tickets[k]]_vars

\* an email other than the one the ticket was built from was opened and the
\* existing ticket came back
C1_Witness ==
  /\ last.op = "OpenIncoming"
  /\ selected # None
  /\ selected.email_id # last.email.id
  /\ selected.ingestionKey = IngestionKey(last.email)
  /\ Len(tickets) = 1

\* C5: in every step each ticket's thread before the step is a prefix of the
\* thread the same ticket (same ingestionKey) has after the step.
C5_ThreadAppendOnly ==
  [][\A i \in 1..Len(tickets) :
       \E j \in 1..Len(tickets') :
         /\ tickets'[j].ingestionKey = tickets[i].ingestionKey
         /\ IsPrefix(tickets[i].thread, tickets'[j].thread)]_vars

\* a reply was appended to a thread that had already been replied to
C5_Witness ==
  /\ last.op = "SimulateReply"
  /\ \E i \in 1..Len(tickets) :
       /\ Len(tickets[i].thread) = 3
       /\ tickets[i].thread[2] = ReplyEntry
       /\ tickets[i].thread[1].id = "msg-1001"

----------------------------------------------------------------------------
(* Claims about ticket status: both pages *)

\* ticket field of the list entry with this id, "absent" when there is none
EntryTicket(list, id) ==
  IF \E k \in 1..Len(list) : list[k].id = id
  THEN list[CHOOSE k \in 1..Len(list) : list[k].id = id].ticket
  ELSE "absent"

\* synthesizing Dashboard: tickets are only prepended, so the ticket at
\* position i is afterwards at position i + (growth of the collection)
SynthStatusFrame ==
  /\ Len(tickets') >= Len(tickets)
  /\ \A i \in 1..Len(tickets) :
       LET t == tickets[i]
           u == tickets'[i + Len(tickets') - Len(tickets)]
       IN /\ u.status # t.status =>
               \/ /\ last'.op = "Send"
                  /\ u.id = last'.id
                  /\ u.status = "sent"
               \/ /\ last'.op = "SimulateReply"
                  /\ u.id = last'.id
                  /\ u.status = "awaiting_review"
          /\ last'.op = "Save" =>
               u = [t EXCEPT !.draft_reply.body = u.draft_reply.body]
          /\ last'.op \in {"OpenTicket", "Back"} => u = t

\* agent board: list entries change status only in a refetch or in the
\* success handler of their own status update; the selected ticket keeps its
\* status while it stays selected; Save touches the draft body and, once the
\* document was fetched again, the attachment list
BoardStatusFrame ==
  /\ \A i \in 1..Len(emails) : \A j \in 1..Len(emails') :
       (emails'[j].id = emails[i].id /\ emails'[j].ticket # emails[i].ticket) =>
          \/ last'.op = "ListOk"
          \/ /\ last'.op = "AckOk"
             /\ emails[i].id = last'.id
             /\ emails'[j].ticket = "open"
  /\ last'.op \in {"Save", "SaveOk", "SaveFail", "SaveDone", "Back",
                   "Generate", "ocrOk", "draftOk", "GenerateFail",
                   "GenerateDone", "GenerateTimer"} => emails' = emails
  /\ (boardSelected # None /\ boardSelected' # None /\ last'.op # "OpenShown") =>
       Field(boardSelected', "status") = Field(boardSelected, "status")
  /\ (last'.op = "Save" /\ boardSelected # None) =>
       /\ "draft_reply" \in DOMAIN boardSelected'
       /\ "body" \in DOMAIN boardSelected'.draft_reply
       /\ boardSelected' =
            With(boardSelected, "draft_reply",
                 With(ObjOr(boardSelected, "draft_reply", None), "body",
                      boardSelected'.draft_reply.body))
  /\ last'.op \in {"SaveOk", "SaveFail"} => boardSelected' = boardSelected
  /\ (last'.op = "SaveDone" /\ boardSelected # None) =>
       /\ "attachments" \in DOMAIN boardSelected'
       /\ boardSelected' =
            With(boardSelected, "attachments", boardSelected'.attachments)

\* C2: apart from a list refetch, a ticket's status changes only in a Send
\* step (to sent), a Simulate-Reply step (to awaiting_review) or the success
\* handler of the status update issued on open (to open); Save, open-ticket,
\* Back and the Generate refresh leave every status as it was, and Save
\* changes nothing but the draft body (on the agent board also the attachment
\* list, when the document has been fetched again).
C2_StatusChangesOnlyInLifecycleSteps ==
  [][SynthStatusFrame /\ BoardStatusFrame]_vars

\* a Generate refresh delivered the document's scores to a selected ticket,
\* whose status is still the one it was opened with
C2_Witness ==
  /\ last.op = "GenerateDone"
  /\ Field(boardSelected, "status") = "sent"
  /\ Field(boardSelected, "overall_confidence") = 80

----------------------------------------------------------------------------
(* Claims about the agent board *)

\* C3: Send on a ticket that is not closed sets that ticket's status to sent
\* (closed) and clears the selection.
C3_SendClosesTicket ==
  [][last'.op = "Send" =>
       /\ boardSelected' = None
       /\ \A i \in 1..Len(emails) :
            emails[i].id = last'.id =>
              /\ i <= Len(emails')
              /\ emails'[i].ticket \in {"sent", "closed"}]_vars

\* C4: Simulate-Reply on a closed ticket resets the ticket's status to open,
\* moving it from the closed column to the open column.
C4_ReplyReopensTicket ==
  [][last'.op = "SimulateReply" =>
       \A i \in 1..Len(emails) :
         (emails[i].id = last'.id /\ emails[i].ticket = "closed") =>
            /\ i <= Len(emails')
            /\ emails'[i].ticket = "open"]_vars

\* C6: whenever a closed ticket is open in the detail view, Simulate-Reply
\* is offered for it (the detail view treats it as closed).
C6_ClosedOffersReply ==
  (BoardView = "detail" /\ EntryTicket(emails, Field(boardSelected, "id")) = "closed")
    => isClosed(boardSelected)

\* C7: while the selected ticket is closed (status sent, or closed as mapped
\* from the backend ticket field), neither Save nor Send runs on it and its
\* draft body stays as it is.
C7_ClosedIsFrozen ==
  [][(boardSelected # None /\ Field(boardSelected, "status") \in {"sent", "closed"}) =>
       /\ last'.op \notin {"Save", "Send"}
       /\ (boardSelected' # None /\ last'.op # "OpenShown") =>
            ObjOr(boardSelected', "draft_reply", None)
              = ObjOr(boardSelected, "draft_reply", None)]_vars

\* C8: when the document fetch of an email opened as new has settled, the
\* ticket is selected and the status update is issued while the list is left
\* alone; an entry goes from new to open only in the success handler of its
\* own update (or in a refetch); a rejected update changes neither the list,
\* nor the selection, nor the error and loading slots.
C8_OpenNewAcknowledged ==
  [][/\ (last'.op = "OpenShown" /\ last'.was = "new") =>
          /\ boardSelected' # None
          /\ Copies(inFlight', [op |-> "ticket", id |-> last'.id])
               = Copies(inFlight, [op |-> "ticket", id |-> last'.id]) + 1
          /\ emails' = emails
     /\ \A i \in 1..Len(emails) : \A j \in 1..Len(emails') :
          (/\ emails'[j].id = emails[i].id
           /\ emails[i].ticket = "new"
           /\ emails'[j].ticket = "open") =>
             \/ last'.op = "ListOk"
             \/ last'.op = "AckOk" /\ last'.id = emails[i].id
     /\ last'.op = "AckOk" =>
          \A j \in 1..Len(emails') :
            emails'[j].id = last'.id => emails'[j].ticket = "open"
     /\ last'.op = "AckFail" =>
          /\ emails' = emails
          /\ boardSelected' = boardSelected
          /\ error' = error
          /\ loading' = loading]_vars

\* the status update of the ticket on screen was rejected: its entry is
\* still new, the detail view is still shown and no error is set
C8_Witness ==
  /\ last.op = "AckFail"
  /\ EntryTicket(emails, last.id) = "new"
  /\ BoardView = "detail"
  /\ Field(boardSelected, "id") = last.id
  /\ error = NoError

\* C9 as stated: the entry of an email opened as new is open as soon as the
\* open action has shown the ticket, before the status update settles.
C9_OptimisticOpen ==
  [][(last'.op = "OpenShown" /\ last'.was = "new") =>
       \A j \in 1..Len(emails') :
         emails'[j].id = last'.id => emails'[j].ticket = "open"]_vars

\* C9: the open action does not touch the list: neither the click, nor the
\* settling of the document fetch, nor a rejected status update changes any
\* entry; the entry is set to open by the success handler of the status
\* update and by nothing else in the open flow.
C9_OpenOnlyOnAcknowledgement ==
  [][/\ last'.op \in {"Open", "OpenShown", "AckFail"} => emails' = emails
     /\ last'.op = "AckOk" =>
          /\ Len(emails') = Len(emails)
          /\ \A j \in 1..Len(emails) :
               emails'[j] = IF emails[j].id = last'.id
                            THEN [emails[j] EXCEPT !.ticket = "open"]
                            ELSE emails[j]]_vars

\* the ticket of an email opened as new is on screen, its status update is
\* in flight and its list entry is still new
C9_Witness ==
  /\ last.op = "OpenShown"
  /\ last.was = "new"
  /\ boardSelected # None
  /\ BagIn([op |-> "ticket", id |-> last.id], inFlight)
  /\ EntryTicket(emails, last.id) = "new"

\* C10: the open action on a listed email shows the detail view of that
\* email at once, before the document fetch settles.
C10_DetailShownOnOpen ==
  [][last'.op = "Open" =>
       /\ boardSelected' # None
       /\ Field(boardSelected', "id") = last'.id]_vars

\* the status updates (ids) in flight
PendingAcks == {req.id : req \in Requests("ticket")}

\* the list after the update of this id has settled
AfterAck(list, id, ok) ==
  IF ok THEN [k \in 1..Len(list) |-> AckTicket(list[k], id)] ELSE list

\* with two updates in flight, both arrival orders end in the same list
AcksCommute ==
  \A a, b \in PendingAcks : \A okA, okB \in BOOLEAN :
    a # b =>
      AfterAck(AfterAck(emails, a, okA), b, okB)
        = AfterAck(AfterAck(emails, b, okB), a, okA)

\* an update settles while the update of another email is in flight
AckBesideAnother ==
  /\ last'.op \in {"AckOk", "AckFail"}
  /\ PendingAcks' \ {last'.id} # {}

\* C11: with the status updates of two different emails in flight, a
\* successful acknowledgement sets the entry of its own email to open and
\* leaves every other entry and the other update as they are, a failed one
\* changes no entry, and both arrival orders give the same list.
C11_AcksIndependent ==
  /\ []AcksCommute
  /\ [][AckBesideAnother =>
          /\ Len(emails') = Len(emails)
          /\ \A k \in 1..Len(emails) :
               IF emails[k].id = last'.id /\ last'.op = "AckOk"
               THEN emails'[k].ticket = "open"
               ELSE emails'[k] = emails[k]
          /\ \A b \in PendingAcks' \ {last'.id} :
               Copies(inFlight', [op |-> "ticket", id |-> b])
                 = Copies(inFlight, [op |-> "ticket", id |-> b])]_vars

\* the email opened second was acknowledged first: its entry is open, the
\* entry of the email opened first is still new and its update in flight
C11_Witness ==
  /\ last.op = "AckOk"
  /\ last.id = EmailIds[2]
  /\ Field(boardSelected, "id") = EmailIds[2]
  /\ EmailIds[1] \in PendingAcks
  /\ EntryTicket(emails, EmailIds[1]) = "new"
  /\ EntryTicket(emails, EmailIds[2]) = "open"

\* draft body of a ticket ("none" when the object has no draft)
DraftBodyOf(t) ==
  IF t # None /\ "draft_reply" \in DOMAIN t /\ "body" \in DOMAIN t.draft_reply
  THEN t.draft_reply.body
  ELSE "none"

\* C12: Save puts the draft body the user typed into the selected ticket at
\* once; when the backend call of the Save fails, the selected ticket is left
\* exactly as it is (the body is not rolled back, no other field changes),
\* the list and the error slot are untouched, and the user is told through
\* the alert "Failed to save edits".
C12_FailedSaveKeepsDraft ==
  [][/\ last'.op = "Save" =>
          \E req \in Requests("save")' :
            /\ Copies(inFlight', req) = Copies(inFlight, req) + 1
            /\ req.id = last'.id
            /\ DraftBodyOf(boardSelected') = req.body
     /\ last'.op = "SaveFail" =>
          /\ boardSelected' = boardSelected
          /\ emails' = emails
          /\ error' = error
          /\ last'.alert = "Failed to save edits"]_vars

\* the Save of the ticket on screen failed and the ticket still shows the
\* body that was saved
C12_Witness ==
  /\ last.op = "SaveFail"
  /\ BoardView = "detail"
  /\ Field(boardSelected, "id") = last.id
  /\ last.id = EmailIds[1]
  /\ DraftBodyOf(boardSelected) = last.body
  /\ last.body = "edited"

\* attachment list handleSave derives from a fetched document
RefetchedAttachments(doc) ==
  IF "attachments" \in DOMAIN doc THEN doc.attachments ELSE <<>>

\* C13: when the backend save call of a Save has succeeded the document is
\* fetched again, and when that fetch has settled the attachment list of the
\* selected ticket is the one of the fetched document (entry by entry: name,
\* blob path, OCR result) while its draft, the saved body included, is as it
\* was.
C13_SavedThenRefetched ==
  [][/\ last'.op = "SaveOk" =>
          /\ Copies(inFlight', [op |-> "saveDoc", id |-> last'.id])
               = Copies(inFlight, [op |-> "saveDoc", id |-> last'.id]) + 1
          /\ boardSelected' = boardSelected
     /\ last'.op = "SaveDone" =>
          LET atts == RefetchedAttachments(last'.doc)
              shown == boardSelected'.attachments
          IN /\ Len(shown) = Len(atts)
             /\ \A i \in 1..Len(atts) :
                  /\ shown[i].name = atts[i].name
                  /\ shown[i].blob = atts[i].blobPath
                  /\ shown[i].sasUrl = atts[i].blobPath
                  /\ shown[i].ocr = ObjOr(atts[i], "ocr", None)
             /\ DraftBodyOf(boardSelected') = DraftBodyOf(boardSelected)]_vars

\* the saved ticket is on screen with the saved body and with the attachment
\* of the fetched document, which carries an OCR result the list entry lacked
C13_Witness ==
  /\ last.op = "SaveDone"
  /\ BoardView = "detail"
  /\ Field(boardSelected, "id") = last.id
  /\ last.id = EmailIds[1]
  /\ DraftBodyOf(boardSelected) = "edited"
  /\ Len(boardSelected.attachments) = 1
  /\ boardSelected.attachments[1].ocr # None

\* how many cards of a column show this list entry
CardsOf(column, entry) == Cardinality({k \in 1..Len(column) : column[k] = entry})

\* the column an entry belongs to by its ticket field
ColumnOf(entry) ==
  CASE entry.ticket = "new" -> "New"
    [] entry.ticket = "open" -> "Open"
    [] entry.ticket = "closed" -> "Closed"
    [] OTHER -> "none"

\* C14: every list entry whose ticket is new, open or closed is shown once,
\* in the column named by its ticket and in no other; an entry with any
\* other ticket value is shown in no column and is still in the list.
C14_ColumnsPartitionList ==
  \A i \in 1..Len(emails) :
    LET e == emails[i]
        copies == Cardinality({k \in 1..Len(emails) : emails[k] = e})
    IN /\ CardsOf(newEmails, e) = IF ColumnOf(e) = "New" THEN copies ELSE 0
       /\ CardsOf(openEmails, e) = IF ColumnOf(e) = "Open" THEN copies ELSE 0
       /\ CardsOf(closedEmails, e) = IF ColumnOf(e) = "Closed" THEN copies ELSE 0

\* the list holds an entry with an unrecognised ticket value next to a
\* closed one: one card in Closed, none in New and Open, two list entries
C14_Witness ==
  /\ Len(emails) = 2
  /\ emails[1].ticket = "closed"
  /\ emails[2].ticket = "archived"
  /\ Len(closedEmails) = 1
  /\ Len(newEmails) = 0
  /\ Len(openEmails) = 0

\* ids of the tickets of the synthesizing Dashboard and of the list entries
\* of the agent board
TicketIdsHeld == {tickets[i].id : i \in 1..Len(tickets)}
EntryIdsHeld == {emails[i].id : i \in 1..Len(emails)}

\* C16: no user action and no completed or failed network call removes a
\* ticket or list entry from its backing collection: what a collection holds
\* before a step, it holds after it.
C16_NothingRemoved ==
  [][TicketIdsHeld \subseteq TicketIdsHeld' /\ EntryIdsHeld \subseteq EntryIdsHeld']_vars

\* C23: when email A is opened and then email B before A's document fetch
\* has settled, the detail view shows B, the most recently opened email,
\* once both fetches have settled, in whichever order they settle: a fetch
\* that settles after the fetch of a later click leaves that later email on
\* screen.
C23_LatestOpenShown ==
  [][(/\ last.op = "OpenShown" /\ last.newest
      /\ last'.op = "OpenShown" /\ ~last'.newest)
     => Field(boardSelected', "id") = last.id]_vars

\* C24: a Save whose calls complete after the user has left the detail view
\* or has opened a different ticket does not change the selection: after
\* Back it stays empty, and another selected ticket does not receive the
\* attachments of the ticket that was saved.
C24_LateSaveLeavesSelection ==
  [][(last'.op = "SaveDone" /\ Field(boardSelected, "id") # last'.id)
     => boardSelected' = boardSelected]_vars

----------------------------------------------------------------------------
(* Claims about the sort board *)

\* the items the sort board holds, fetched as new or as categorized
HeldItems ==
  {emails[i] : i \in 1..Len(emails)}
    \cup {categorizedEmails[i] : i \in 1..Len(categorizedEmails)}

InboxItems == {inboxEmails[i] : i \in 1..Len(inboxEmails)}

\* C15: the Incoming Email bucket of the sort board contains every item the
\* board holds, fetched as new or as categorized, whose assignment is empty
\* or null, and no item that has an assigned agent.
C15_UnassignedBucketComplete ==
  /\ \A e \in HeldItems : Unassigned(e) => e \in InboxItems
  /\ \A e \in InboxItems : Unassigned(e)

----------------------------------------------------------------------------
(* Claims about score formatting *)

\* C17: fmt renders a number above 100 as "100%", a number below 0 as "0%",
\* a number in [0,100] as its rounded value followed by "%" and a value that
\* is not a number as the placeholder; no input renders as NaN.
C17_FmtClampsOrPlaceholder ==
  last.op = "fmt" =>
    /\ last.n.type # "number" => last.text = Placeholder
    /\ (last.n.type = "number" /\ "tenths" \in DOMAIN last.n) =>
         /\ last.n.tenths > 1000 => last.text = "100%"
         /\ last.n.tenths < 0 => last.text = "0%"
         /\ last.n.tenths \in 0..1000 =>
              last.text = ToString(Round(last.n.tenths)) \o "%"
    /\ last.n = [type |-> "number", special |-> "Infinity"] => last.text = "100%"
    /\ last.n = [type |-> "number", special |-> "-Infinity"] => last.text = "0%"
    /\ last.text \notin {"NaN", "NaN%"}

----------------------------------------------------------------------------
(* Claims about sender normalisation *)

Contains(chars, key) == \E p \in 1..Len(chars) : StartsAt(chars, key, p)

\* what the shapes other than "@{name=N; address=A}" yield: an object its
\* name and address, and the default for each part that is missing
OtherShapesNormalized ==
  /\ last.shape.kind = "string" =>
       LET chars == last.email.from.emailAddress.chars
       IN /\ ~Contains(chars, NameKey) => last.from.name = Unknown
          /\ ~Contains(chars, AddressKey) => last.from.email = UnknownAddress
  /\ last.shape.kind = "object" =>
       LET obj == last.email.from.emailAddress
       IN /\ last.from.name = (IF "name" \in DOMAIN obj /\ obj.name # <<>>
                               THEN obj.name ELSE Unknown)
          /\ last.from.email = (IF "address" \in DOMAIN obj /\ obj.address # <<>>
                                THEN obj.address ELSE UnknownAddress)
  /\ last.shape.kind = "absent" =>
       last.from = [name |-> Unknown, email |-> UnknownAddress]

\* C18 as stated: sender normalisation is total over the sender shapes; a
\* string "@{name=N; address=A}" yields name N and email A, an object its
\* name and address, and an absent sender, a string with neither key or an
\* object lacking a field the defaults for the missing part; every shape
\* yields a sender, none an error.
C18_SenderNormalized ==
  last.op = "normalizeSender" =>
    /\ last.shape.kind = "form" =>
         last.from = [name |-> last.shape.N, email |-> last.shape.A]
    /\ OtherShapesNormalized

\* N and A that the string form can carry: N is not empty and holds neither
\* ";" nor "address=", A is not empty and holds no "}"
Delimited(N, A) ==
  /\ N # <<>> /\ ~Contains(N, <<";">>) /\ ~Contains(N, AddressKey)
  /\ A # <<>> /\ ~Contains(A, <<"}">>)

\* C18 (amended): as stated, the string form yielding name N and email A
\* when N is non-empty and contains neither ";" nor "address=" and A is
\* non-empty and contains no "}".
C18_DelimitedSenderNormalized ==
  last.op = "normalizeSender" =>
    /\ (last.shape.kind = "form" /\ Delimited(last.shape.N, last.shape.A)) =>
         last.from = [name |-> last.shape.N, email |-> last.shape.A]
    /\ OtherShapesNormalized

\* a string of the form was normalised to its N and A
C18_Witness ==
  /\ last.op = "normalizeSender"
  /\ last.shape.kind = "form"
  /\ last.shape.N = Nina /\ last.shape.A = NinaAddress
  /\ last.from = [name |-> Nina, email |-> NinaAddress]

----------------------------------------------------------------------------
(* Claims about errors on the sort board *)

\* the steps in which a load, Refresh, Sort or Check Inbox fails
SortFailures == {"SortLoadFail", "SortRefreshFail", "SortFail", "CheckFail"}
\* the steps in which Refresh, Sort or Check Inbox starts
SortStarts == {"SortRefresh", "FilterSort", "CheckInbox"}

\* a failing load, Refresh, Sort or Check Inbox leaves a message in error
FailureSetsError == last'.op \in SortFailures => error' # NoError

SortBoardQuiet == ~loading /\ ~sorting /\ ~checking

----------------------------------------------------------------------------
(* Claims about the scores shown after Generate *)

\* the scores parsed from the OCR result of a document
OcrScores(doc) ==
  ScoresOf(FirstParsed(MapAttachments(ObjOr(doc, "attachments", <<>>))))

\* the backend supplied scores with the document: overall scores, or an OCR
\* result that parses
SuppliesScores(doc) ==
  \/ "overall_confidence" \in DOMAIN doc
  \/ FirstParsed(MapAttachments(ObjOr(doc, "attachments", <<>>))) # None

\* the document's overall scores when it carries them, otherwise the scores
\* parsed from the OCR result
SuppliedConfidence(doc) ==
  IF "overall_confidence" \in DOMAIN doc THEN doc.overall_confidence
  ELSE OcrScores(doc).confidence

SuppliedDuplication(doc) ==
  IF "overall_duplication" \in DOMAIN doc THEN doc.overall_duplication
  ELSE OcrScores(doc).duplication

\* C20: after a successful Generate in which the backend supplies scores, the
\* confidence and duplication displayed for the ticket are the values the
\* backend supplied in that Generate (the document's overall scores when it
\* carries them, otherwise the scores parsed from the OCR result), not the
\* defaults the ticket was given when it was opened.
C20_GeneratedScoresShown ==
  (/\ last.op = "GenerateDone"
   /\ BoardView = "detail"
   /\ Field(boardSelected, "id") = last.id
   /\ SuppliesScores(last.doc))
  => /\ conf(boardSelected) = SuppliedConfidence(last.doc)
     /\ dup(boardSelected) = SuppliedDuplication(last.doc)

----------------------------------------------------------------------------
(* Claims about the OCR results read by Generate *)

\* the OCR text of attachment i of the document parses as JSON
Parses(doc, i) ==
  LET a == doc.attachments[i]
  IN "ocr" \in DOMAIN a /\ "text" \in DOMAIN a.ocr /\ a.ocr.text.json

\* the positions of the attachments whose OCR text parses
ParsingAt(doc) == {i \in 1..Len(doc.attachments) : Parses(doc, i)}

\* the parsed OCR result of the first such attachment, in list order
FirstResult(doc) ==
  LET i == CHOOSE k \in ParsingAt(doc) : \A j \in ParsingAt(doc) : k <= j
  IN doc.attachments[i].ocr.text.value

\* C21: an attachment whose OCR text fails to parse does not abort Generate:
\* the extracted fields and the scores come from the first attachment, in
\* list order, whose OCR text parses; if none parses the fields are all null
\* and the scores 0; the refreshed ticket is delivered to the parent either
\* way.
C21_FirstParsableOcrUsed ==
  (last.op = "GenerateDone" /\ BoardView = "detail") =>
    /\ Len(boardSelected.attachments) = Len(last.doc.attachments)
    /\ IF ParsingAt(last.doc) = {}
       THEN /\ boardSelected.extracted = NoExtraction
            /\ boardSelected.scores = [confidence |-> 0, duplication |-> 0]
       ELSE /\ boardSelected.extracted.merchant = FirstResult(last.doc).merchant
            /\ boardSelected.scores =
                 [confidence |-> FirstResult(last.doc).confidence_score,
                  duplication |-> FirstResult(last.doc).duplication_score]

\* the first attachment did not parse and the second one supplied the data
C21_Witness ==
  /\ last.op = "GenerateDone"
  /\ BoardView = "detail"
  /\ Len(last.doc.attachments) = 2
  /\ ~Parses(last.doc, 1)
  /\ "ocr" \in DOMAIN last.doc.attachments[1]
  /\ Parses(last.doc, 2)
  /\ boardSelected.extracted.merchant = "Target"
  /\ boardSelected.scores = [confidence |-> 70, duplication |-> 20]

----------------------------------------------------------------------------
(* Claims about the busy indicators *)

\* a call of the given operations is in flight
InFlightOf(ops) == \E req \in BagToSet(inFlight) : req.op \in ops

\* each indicator is set exactly while a call of its operation is in flight:
\* set when the operation starts, cleared when its calls have settled, by
\* success or by failure, and not before
BusyWhileInFlight ==
  /\ loading <=> InFlightOf({"sbLoad", "sbRefresh"})
  /\ sorting <=> InFlightOf({"categorize", "sbSortLists"})
  /\ checking <=> InFlightOf({"ingest", "sbCheckList"})

ListOperations ==
  {"sbLoad", "sbRefresh", "categorize", "sbSortLists", "ingest", "sbCheckList"}

\* the number of list-replacing calls of the sort board that are in flight
ListOperationsInFlight ==
  BagCardinality([req \in {r \in BagToSet(inFlight) : r.op \in ListOperations}
                    |-> CopiesIn(req, inFlight)])

\* C25: on the sort board at most one operation that replaces the email
\* lists (initial load, Refresh, Sort, Check Inbox) is in flight at any time
C25_OneListOperationInFlight == ListOperationsInFlight <= 1

(***************************************************************************)
(* Claims about ticket identity in the ticket-synthesizing Dashboard       *)
(***************************************************************************)

TicketHandlers == {"Save", "Send", "SimulateReply"}

\* the tickets other than the one on screen keep their fields over the step
OthersUnchanged ==
  \A i \in 1..Len(tickets) :
    tickets[i].ingestionKey # selected.ingestionKey => tickets'[i] = tickets[i]

\* C26: Save, Send and Simulate-Reply invoked for the ticket on screen change
\* that ticket only: every other ticket of the collection is the same after
\* the step as before it.
C26_OnlyTargetChanges ==
  [][(last'.op \in TicketHandlers /\ selected # None) => OthersUnchanged]_<<tickets, selected, last>>

EmailOf(emailId) == EmailPool[CHOOSE k \in 1..Len(EmailPool) : EmailPool[k].id = emailId]

SameIdentity(a, b) == a.messageId = b.messageId /\ a.attachments = b.attachments

\* C27: two emails that differ in messageId or in their ordered attachment
\* list never get the same ingestionKey, so the ticket shown after opening an
\* incoming email was built from an email with the same messageId and the
\* same attachment list.
C27_KeyInjective ==
  [][last'.op = "OpenIncoming" =>
       SameIdentity(EmailOf(selected'.email_id), last'.email)]_<<tickets, selected, last>>

\* a ticket of the collection has the id and the status of the snapshot on screen
SelectedHeld ==
  \E k \in 1..Len(tickets) :
    /\ tickets[k].id = selected.id
    /\ tickets[k].status = selected.status

\* some ticket (the same ingestionKey before and after) changes status in the step
StatusChanged ==
  \E i \in 1..Len(tickets), j \in 1..Len(tickets') :
    /\ tickets[i].ingestionKey = tickets'[j].ingestionKey
    /\ tickets[i].status # tickets'[j].status

\* C28: whenever a ticket is selected, a ticket with the selected ticket's id
\* is in the collection and its status equals the status of the selected
\* snapshot; every step that changes a ticket's status clears the selection.
C28_SelectionMatchesCollection ==
  /\ [](selected # None => SelectedHeld)
  /\ [][StatusChanged => selected' = None]_<<tickets, selected>>

\* a saved draft makes the collection's ticket differ from the snapshot on
\* screen, whose id and status it still has
C28_Witness ==
  /\ last.op = "Save"
  /\ selected # None
  /\ SelectedHeld
  /\ \A k \in 1..Len(tickets) : tickets[k] # selected
  /\ \E k \in 1..Len(tickets) : tickets[k].status = "sent"

(***************************************************************************)
(* Claims about failed operations of the sort board                        *)
(***************************************************************************)

\* the step is the failure of a Sort, a Check Inbox or a Refresh and leaves
\* the two lists as the step found them
FailureWritesNoList ==
  last'.op \in {"SortFail", "CheckFail", "SortRefreshFail"} => Lists' = Lists

\* C30: when Sort, Check Inbox or Refresh fails at any of its calls, emails
\* and categorizedEmails are exactly what they were when that operation was
\* started; the failure of the initial load replaces them with the seed
\* emails and an empty categorized list.
C30_FailureRestoresLists ==
  [][/\ last'.op = "SortFail" => Lists' = started.sort
     /\ last'.op = "CheckFail" => Lists' = started.check
     /\ last'.op = "SortRefreshFail" => Lists' = started.refresh
     /\ last'.op = "SortLoadFail" =>
          emails' = SEED_EMAILS /\ categorizedEmails' = <<>>]_vars

====
